---- MODULE Spec2Model ----
(***************************************************************************)
(* Model of src/app.py: a Streamlit script that resolves two API keys,     *)
(* picks a Gemini model, fetches financials (Yahoo Finance) and news       *)
(* (Tavily) for a ticker and asks the model for a report.                  *)
(*                                                                         *)
(* Text is modelled as a sequence of tokens: a literal of the source is    *)
(* one token, an interpolated ticker contributes one token per character.  *)
(* The characters of a ticker are the ASCII characters and U+00DF.  The    *)
(* emoji of the source are the tokens "CHART" (U+1F4C8), "LOCK" (U+1F510), *)
(* "CHECK" (U+2705), "WARN" (U+26A0), "CROSS" (U+274C), "ROCKET"           *)
(* (U+1F680), "MAG" (U+1F50D), "BARS" (U+1F4CA), "PEN" (U+270D) and "MEMO" *)
(* (U+1F4DD).  Python's None is the empty tuple and a value x that is not  *)
(* None is <<x>>.                                                          *)
(***************************************************************************)
EXTENDS Integers, Sequences, FiniteSets, TLC

VARIABLES
    secrets,        \* st.secrets: the set of key names the secret store holds
    g_input,        \* sidebar text input "Gemini API Key"
    t_input,        \* sidebar text input "Tavily API Key"
    ticker_text,    \* what the user typed in the ticker field
    generate_btn,   \* whether the button was clicked for this run
    pc,             \* position of the script run
    GOOGLE_API_KEY, \* module-level results of load_api_keys()
    TAVILY_API_KEY,
    status_msg,
    model_name,     \* locals of the button handler
    fin_markdown,
    error_msg,
    news_text,
    fin_answer,     \* what the financial provider answered in this run
    news_answer,    \* what the search provider answered in this run
    gen_outcome,    \* the generation request of this run and its answer
    ui,             \* the elements the run has rendered so far, in order
    calls,          \* provider calls made by the run, per provider
    arg,            \* argument of a function applied on its own
    ret             \* its result

vars == <<secrets, g_input, t_input, ticker_text, generate_btn, pc,
          GOOGLE_API_KEY, TAVILY_API_KEY, status_msg, model_name,
          fin_markdown, error_msg, news_text, fin_answer, news_answer,
          gen_outcome, ui, calls, arg, ret>>

runVars == <<GOOGLE_API_KEY, TAVILY_API_KEY, status_msg, model_name,
             fin_markdown, error_msg, news_text, fin_answer, news_answer,
             gen_outcome, ui, calls>>

inputVars == <<secrets, g_input, t_input, ticker_text, generate_btn>>

----------------------------------------------------------------------------
(* Bounds of the model *)

\* longest model list the enumeration call returns
MaxModels == 3
\* most reporting columns the financial provider returns
MaxCols == 4
----------------------------------------------------------------------------
(* Python values *)

None == <<>>
Some(x) == <<x>>
Val(o) == o[1]

\* truthiness of an optional text: None and "" are falsy
Truthy(o) == o # None /\ Val(o) # <<>>

IsPrefixAt(s, sub, i) ==
    /\ i + Len(sub) - 1 <= Len(s)
    /\ \A k \in 1..Len(sub) : s[i + k - 1] = sub[k]

\* Python's `sub in s` on texts
Contains(s, sub) == \E i \in 1..(Len(s) + 1) : IsPrefixAt(s, sub, i)

\* str.endswith
EndsWith(s, suf) ==
    /\ Len(suf) <= Len(s)
    /\ IsPrefixAt(s, suf, Len(s) - Len(suf) + 1)

LowerCase ==
    << "a", "b", "c", "d", "e", "f", "g", "h", "i", "j", "k", "l", "m",
       "n", "o", "p", "q", "r", "s", "t", "u", "v", "w", "x", "y", "z" >>

UpperCase ==
    << "A", "B", "C", "D", "E", "F", "G", "H", "I", "J", "K", "L", "M",
       "N", "O", "P", "Q", "R", "S", "T", "U", "V", "W", "X", "Y", "Z" >>

\* the upper case of one character: a text, since U+00DF becomes "SS"
UpperChar(c) ==
    IF c = "ß" THEN <<"S", "S">>
    ELSE IF \E i \in 1..Len(LowerCase) : LowerCase[i] = c
         THEN <<UpperCase[CHOOSE i \in 1..Len(LowerCase) : LowerCase[i] = c]>>
         ELSE <<c>>

\* str.upper
RECURSIVE Upper(_)
Upper(s) == IF s = <<>> THEN <<>> ELSE UpperChar(Head(s)) \o Upper(Tail(s))

\* the control characters that have no escape in a string: U+000B (line
\* tabulation) and U+001C to U+001F (file, group, record, unit separator)
VT == ""
FS == ""
GS == ""
RS == ""
US == ""

\* the characters str.strip() removes, those str.isspace() holds of: among
\* the characters of the model U+0009 to U+000D, U+001C to U+001F and space
IsWhitespace(c) == c \in {"\t", "\n", VT, "\f", "\r", FS, GS, RS, US, " "}

RECURSIVE LStrip(_)
LStrip(s) == IF s # <<>> /\ IsWhitespace(Head(s)) THEN LStrip(Tail(s)) ELSE s

RECURSIVE RStrip(_)
RStrip(s) ==
    IF s # <<>> /\ IsWhitespace(s[Len(s)]) THEN RStrip(SubSeq(s, 1, Len(s) - 1)) ELSE s

\* str.strip
Strip(s) == LStrip(RStrip(s))

IsNotSpace(c) == c # " "

\* str.replace(" ", "")
RemoveSpaces(s) == SelectSeq(s, IsNotSpace)

----------------------------------------------------------------------------
(* The page: st.<kind>(text) appends an element *)

Show(kind, text) == [kind |-> kind, text |-> text]

\* lines 14-15, rendered by every run before anything else
PageTop ==
    << Show("title", <<"CHART", " Agentic Equity Research Assistant">>),
       Show("markdown", <<"Generates a professional Investment Report using **Live Financials** (Yahoo Finance) + **Web Search** (Tavily).">>) >>

\* lines 31-35: the sidebar form of the fallback
SidebarForm ==
    << Show("sidebar.header", <<"LOCK", " Authentication">>),
       Show("sidebar.caption", <<"Enter keys to proceed (or add them to Secrets for auto-login).">>),
       Show("sidebar.text_input", <<"Gemini API Key">>),
       Show("sidebar.text_input", <<"Tavily API Key">>) >>

\* lines 155-156: the ticker field and the button
MainForm ==
    << Show("text_input", <<"Enter NSE Ticker Symbol (e.g. ZOMATO, RELIANCE, TCS):">>),
       Show("button", <<"ROCKET", " Generate Research Report">>) >>

----------------------------------------------------------------------------
(* STEP 1: load_api_keys *)

SecretNames == {"GOOGLE_API_KEY", "TAVILY_API_KEY"}

\* the value the secret store holds under a name it has
SecretValue(name) == IF name = "GOOGLE_API_KEY" THEN <<"g-secret">> ELSE <<"t-secret">>

MsgSecrets == <<"CHECK", " Authenticated via Secrets">>
MsgWaiting == <<"WARN", " Waiting for Keys...">>
MsgSidebar == <<"CHECK", " Authenticated via Sidebar">>

\* load_api_keys with `and` for the `or` of line 37: one typed key is enough
load_api_keys_EitherKey(store, g_in, t_in) ==
    IF "GOOGLE_API_KEY" \in store /\ "TAVILY_API_KEY" \in store
    THEN <<Some(SecretValue("GOOGLE_API_KEY")), Some(SecretValue("TAVILY_API_KEY")), MsgSecrets>>
    ELSE IF g_in = <<>> /\ t_in = <<>>
         THEN <<None, None, MsgWaiting>>
         ELSE <<Some(g_in), Some(t_in), MsgSidebar>>

\* <<g_key, t_key, status>>; st.secrets[name] raises KeyError (or
\* FileNotFoundError when there is no secrets file) for a name it lacks
load_api_keys(store, g_in, t_in) ==
    IF "GOOGLE_API_KEY" \in store /\ "TAVILY_API_KEY" \in store
    THEN <<Some(SecretValue("GOOGLE_API_KEY")), Some(SecretValue("TAVILY_API_KEY")), MsgSecrets>>
    ELSE IF g_in = <<>> \/ t_in = <<>>
         THEN <<None, None, MsgWaiting>>
         ELSE <<Some(g_in), Some(t_in), MsgSidebar>>

\* what load_api_keys renders: nothing when both secrets are read, else the
\* sidebar form, whatever was typed
SidebarShown(store) ==
    IF "GOOGLE_API_KEY" \in store /\ "TAVILY_API_KEY" \in store THEN <<>> ELSE SidebarForm

\* the test `"CHECK" in status_msg` that decides st.success or st.warning + st.stop
IsAuthenticated(status) == Contains(status, <<"CHECK">>)

----------------------------------------------------------------------------
(* STEP 2: get_working_model *)

preferences ==
    << "models/gemini-1.5-flash",
       "models/gemini-1.5-flash-latest",
       "models/gemini-1.5-pro",
       "models/gemini-pro" >>

SupportsGeneration(m) == "generateContent" \in m.supported_generation_methods

\* [m.name for m in models if 'generateContent' in m.supported_generation_methods]
ValidModels(models) ==
    LET kept == SelectSeq(models, SupportsGeneration)
    IN  [i \in 1..Len(kept) |-> kept[i].name]

InSeq(x, s) == \E i \in 1..Len(s) : s[i] = x

\* FirstPreferred with the loop over valid_models instead of preferences:
\* the first enumerated model that is a preferred one
FirstPreferred_EnumerationOrder(valid) ==
    LET hits == {i \in 1..Len(valid) : InSeq(valid[i], preferences)}
    IN  IF hits = {} THEN None
        ELSE Some(valid[CHOOSE i \in hits : \A j \in hits : i <= j])

\* for p in preferences: if p in valid_models: return p
FirstPreferred(valid) ==
    LET hits == {i \in 1..Len(preferences) : InSeq(preferences[i], valid)}
    IN  IF hits = {} THEN None
        ELSE Some(preferences[CHOOSE i \in hits : \A j \in hits : i <= j])

\* resp.raises: genai.list_models() (or reading a model's fields) raised
get_working_model(resp) ==
    IF resp.raises THEN None
    ELSE LET valid_models == ValidModels(resp.models)
         IN  IF valid_models = <<>> THEN None
             ELSE IF FirstPreferred(valid_models) # None
                  THEN FirstPreferred(valid_models)
                  ELSE Some(valid_models[1])

----------------------------------------------------------------------------
(* STEP 3: get_financials *)

NS == <<".", "N", "S">>

\* t = ticker.upper().strip().replace(" ", ""); append ".NS" when missing
CleanTicker(ticker) ==
    LET t == RemoveSpaces(Strip(Upper(ticker)))
    IN  IF EndsWith(t, NS) THEN t ELSE t \o NS

MsgNoConnect(t) == <<"Could not connect to Yahoo Finance for ">> \o t
MsgNoData(t) ==
    <<"CROSS", " No financial data found for '">> \o t
        \o <<"'. Check if the ticker is correct.">>
MsgNoParse == <<"CROSS", " Data found but could not parse Revenue/Profit.">>

\* f"Critical Error: {str(e)}"
MsgCritical(e) == <<"Critical Error: ">> \o e

\* str(e) of the exceptions that reach the outer handler
ErrNoneEmpty   == <<"'NoneType' object has no attribute 'empty'">>
ErrStrStrftime == <<"'str' object has no attribute 'strftime'">>
ErrNoTabulate  == <<"Missing optional dependency 'tabulate'.  Use pip or conda to install tabulate.">>

\* A cell of a table is a number (an integer count of rupees in the model),
\* pandas' missing value nan, or an object that is not a number (None).  A
\* computed figure is a finite number in the unit named by its metric, a
\* negative zero, an infinity or nan.
Num(v)    == [k |-> "num", v |-> v]
NegZero   == [k |-> "negzero", v |-> 0]
PosInf    == [k |-> "inf", v |-> 1]
NegInf    == [k |-> "inf", v |-> -1]
NaN       == [k |-> "nan", v |-> 0]
NotNumber == [k |-> "object", v |-> 0]

\* a float of magnitude q whose sign bit is set when neg
Signed(q, neg) == IF q = 0 /\ neg THEN NegZero ELSE Num(q)

\* round(n / d) for d > 0, ties to the even neighbour (Python and numpy)
RoundHalfEven(n, d) ==
    LET q == n \div d
        r == n - q * d
    IN  IF 2 * r < d THEN q
        ELSE IF 2 * r > d THEN q + 1
        ELSE IF q % 2 = 0 THEN q ELSE q + 1

Crore == 10000000

\* round(cell / 1e7, 0), in crore.  The division of an integer by 1e7 is
\* correctly rounded and a quotient of the form k + 0.5 is a double, so the
\* tie rule applies to the exact quotient.
RoundCrore(cell) ==
    IF cell.k = "nan" THEN NaN
    ELSE Signed(RoundHalfEven(cell.v, Crore), cell.v < 0)

Abs(x) == IF x < 0 THEN -x ELSE x

\* <<digit, rest>> with 10 * r = digit * d + rest, for 0 <= r < d: k more
\* additions of r, none of which leaves the range below d
RECURSIVE TenTimes(_, _, _, _, _)
TenTimes(r, d, k, digit, rest) ==
    IF k = 0 THEN <<digit, rest>>
    ELSE IF rest >= d - r
         THEN TenTimes(r, d, k - 1, digit + 1, rest - (d - r))
         ELSE TenTimes(r, d, k - 1, digit, rest + r)

\* n / d * 100 in tenths, for n >= 0 and d > 0: the whole tenths and the
\* rest of the division, by long division
Tenths(n, d) ==
    LET d1 == TenTimes(n % d, d, 10, 0, 0)
        d2 == TenTimes(d1[2], d, 10, 0, 0)
        d3 == TenTimes(d2[2], d, 10, 0, 0)
    IN  [q |-> (((n \div d) * 10 + d1[1]) * 10 + d2[1]) * 10 + d3[1], r |-> d3[2]]

\* the magnitudes round(x, 1) can give for |x| = n / d * 100, in tenths.
\* The source computes x as ((raw / 1e7) * 1e7 / equity) * 100 in doubles:
\* off a tie the error of the doubles is too small to change the result for
\* the magnitudes of the model; at a tie the doubles land on either side and
\* both neighbours are possible.
RoundTenths(n, d) ==
    LET x == Tenths(n, d)
    IN  IF x.r < d - x.r THEN {x.q}
        ELSE IF x.r > d - x.r THEN {x.q + 1}
        ELSE {x.q, x.q + 1}

\* line 122 raises: the equity is not a number (TypeError), or it is zero
\* and the operands are Python numbers (ZeroDivisionError); numpy.float64
\* operands divide by zero without an exception
ROERaises(equity, py) ==
    \/ equity.k = "object"
    \/ py /\ equity.k = "num" /\ equity.v = 0

\* round((pat * 1e7 / equity) * 100, 1) with pat = raw / 1e7, in tenths of a
\* percent: the set of values the doubles can give
RoundROE(raw, equity) ==
    IF raw.k = "nan" \/ equity.k = "nan" THEN {NaN}
    ELSE IF equity.v = 0
         THEN {IF raw.v > 0 THEN PosInf ELSE IF raw.v < 0 THEN NegInf ELSE NaN}
         ELSE LET neg == (raw.v < 0) # (equity.v < 0)
              IN  { Signed(IF neg THEN -m ELSE m, neg) :
                    m \in RoundTenths(Abs(raw.v), Abs(equity.v)) }

\* a column label that is a Timestamp has strftime; date.strftime('%Y')
YearLabel(date) == date.y

\* fin.loc[label, date] / 1e7 raises when the table has no such row
\* (KeyError) or the cell is not a number (TypeError); nan divides
CellRaises(fin, label, date) ==
    label \notin fin.index \/ fin.loc[<<label, date>>].k = "object"

\* bs.empty: no rows or no columns
BsEmpty(bs) == bs.index = {} \/ bs.columns = {}

\* equity = 1, replaced by the balance sheet's figure for the date when the
\* sheet is not empty, has the row and has the column
EquityFor(bs, date) ==
    IF /\ ~BsEmpty(bs)
       /\ "Stockholders Equity" \in bs.index
       /\ date \in bs.columns
    THEN bs.loc[<<"Stockholders Equity", date>>]
    ELSE Num(1)

\* the loop body reaches its `except: continue`: a line item cannot be read
\* (lines 113-114), stock.balance_sheet raises (lines 118-120) or the
\* return on equity cannot be computed (line 122)
ColumnRaises(resp, date) ==
    \/ CellRaises(resp.fin, "Total Revenue", date)
    \/ CellRaises(resp.fin, "Net Income", date)
    \/ resp.bs.raises
    \/ ROERaises(EquityFor(resp.bs, date), resp.py)

\* the dict entries the loop body can build for one column
Entry(resp, date) ==
    { [ rev |-> RoundCrore(resp.fin.loc[<<"Total Revenue", date>>]),
        pat |-> RoundCrore(resp.fin.loc[<<"Net Income", date>>]),
        roe |-> r ] :
      r \in RoundROE(resp.fin.loc[<<"Net Income", date>>], EquityFor(resp.bs, date)) }

\* data[k] = v on a dict kept as a sequence of <<key, value>> in insertion
\* order: an existing key keeps its place and takes the new value
DictSet(d, k, v) ==
    IF \E i \in 1..Len(d) : d[i][1] = k
    THEN [i \in 1..Len(d) |-> IF d[i][1] = k THEN <<k, v>> ELSE d[i]]
    ELSE Append(d, <<k, v>>)

\* years = fin.columns[:3]
Years(fin) ==
    SubSeq(fin.columns, 1, IF Len(fin.columns) < 3 THEN Len(fin.columns) ELSE 3)

\* the loop over years, from column i on, with the dict built so far: the
\* dicts it can end with, or a failure when a label has no strftime (line
\* 110 is outside the inner try)
RECURSIVE BuildData(_, _, _)
BuildData(resp, i, data) ==
    IF i > Len(Years(resp.fin)) THEN {[ok |-> TRUE, data |-> data]}
    ELSE LET date == Years(resp.fin)[i]
         IN  IF ~date.ts THEN {[ok |-> FALSE, data |-> <<>>]}
             ELSE IF ColumnRaises(resp, date)
                  THEN BuildData(resp, i + 1, data)
                  ELSE UNION { BuildData(resp, i + 1, DictSet(data, YearLabel(date), e)) :
                               e \in Entry(resp, date) }

Metrics == <<"rev", "pat", "roe">>

\* pd.DataFrame(data).to_markdown(): one column per key in insertion order,
\* one row per metric
ToMarkdown(data) ==
    [ columns |-> [i \in 1..Len(data) |-> data[i][1]],
      rows    |-> [m \in 1..Len(Metrics) |->
                     [i \in 1..Len(data) |-> data[i][2][Metrics[m]]]] ]

\* fin.empty: no rows or no columns
FinEmpty(fin) == fin.index = {} \/ fin.columns = <<>>

\* lines 135-138: to_markdown needs the tabulate package
Tabulated(resp, data) ==
    IF resp.tabulate THEN <<Some(ToMarkdown(data)), None>>
    ELSE <<None, Some(MsgCritical(ErrNoTabulate))>>

\* get_financials without the `if fin.empty` and `if not data` returns
get_financials_NoEmptyCheck(ticker, resp) ==
    LET t == CleanTicker(ticker)
    IN  IF resp.financials = "raises" THEN {<<None, Some(MsgNoConnect(t))>>}
        ELSE IF resp.financials = "None" THEN {<<None, Some(MsgCritical(ErrNoneEmpty))>>}
        ELSE { IF ~b.ok THEN <<None, Some(MsgCritical(ErrStrStrftime))>>
               ELSE Tabulated(resp, b.data) :
               b \in BuildData(resp, 1, <<>>) }

\* the <<fin_markdown, error_msg>> the call can return.  resp.financials:
\* stock.financials raised, returned None, or returned a table
get_financials(ticker, resp) ==
    LET t == CleanTicker(ticker)
    IN  IF resp.financials = "raises" THEN {<<None, Some(MsgNoConnect(t))>>}
        ELSE IF resp.financials = "None" THEN {<<None, Some(MsgCritical(ErrNoneEmpty))>>}
        ELSE IF FinEmpty(resp.fin) THEN {<<None, Some(MsgNoData(t))>>}
        ELSE { IF ~b.ok THEN <<None, Some(MsgCritical(ErrStrStrftime))>>
               ELSE IF b.data = <<>> THEN <<None, Some(MsgNoParse)>>
               ELSE Tabulated(resp, b.data) :
               b \in BuildData(resp, 1, <<>>) }

----------------------------------------------------------------------------
(* get_news *)

ExcerptLen == 250

Excerpt(content) ==
    SubSeq(content, 1, IF Len(content) < ExcerptLen THEN Len(content) ELSE ExcerptLen)

\* context += f"- {r['title']}: {r['content'][:250]}...\n"
RECURSIVE NewsContext(_)
NewsContext(results) ==
    IF results = <<>> THEN <<>>
    ELSE <<"- ">> \o Head(results).title \o <<": ">>
            \o Excerpt(Head(results).content) \o <<"...\n">>
            \o NewsContext(Tail(results))

\* resp.raises: tavily.search raised; the text of the exception is resp.err
get_news(ticker, resp) ==
    IF resp.raises THEN <<"News Error: ">> \o resp.err
    ELSE NewsContext(resp.results)

----------------------------------------------------------------------------
(* What the providers can answer *)

ModelNames ==
    { preferences[i] : i \in 1..Len(preferences) }
        \cup {"models/gemini-2.0-flash", "models/embedding-001"}

MethodSets == {{"generateContent"}, {"embedContent"}}

ModelRecs == [name : ModelNames, supported_generation_methods : MethodSets]

SeqsUpTo(S, n) == UNION {[1..k -> S] : k \in 0..n}

\* every answer of genai.list_models(): an exception, or a list of models
ModelResponses ==
    {[raises |-> TRUE, models |-> <<>>]}
        \cup {[raises |-> FALSE, models |-> ms] : ms \in SeqsUpTo(ModelRecs, MaxModels)}

\* reporting dates, as Timestamp labels: period d ends in March (d even) or
\* December (d odd)
DateOf(d) == [y |-> 2020 + (d \div 2), m |-> IF d % 2 = 0 THEN 3 ELSE 12, ts |-> TRUE]

\* the same date as a label that is a str, which has no strftime
StrLabel(date) == [date EXCEPT !.ts = FALSE]

DateIds == 1..MaxCols

Max(S) == CHOOSE x \in S : \A z \in S : z <= x

\* the provider lists the most recent period first
RECURSIVE RecentFirst(_)
RecentFirst(S) ==
    IF S = {} THEN <<>> ELSE <<DateOf(Max(S))>> \o RecentFirst(S \ {Max(S)})

DatesOf(S) == {DateOf(d) : d \in S}

Labels(cols) == {cols[i] : i \in 1..Len(cols)}

\* the periods of S that fin.columns[:3] keeps
Recent(S) == {d \in S : Cardinality({e \in S : e > d}) < 3}

\* the figures the tables are filled with, in rupees: 24.5 crore of revenue,
\* 0.15 crore of profit, 0.05 crore of loss, 0.4 crore of equity
Revenue   == 245 * 1000000
NetIncome == 15 * 100000
NetLoss   == -(5 * 100000)
Equity    == 4 * 1000000

\* what a cell of a row can hold
CellsOf(label) ==
    IF label = "Total Revenue" THEN {NotNumber, Num(Revenue)}
    ELSE {NotNumber, NaN, Num(NetIncome), Num(NetLoss)}

PlainCell(label) == IF label = "Total Revenue" THEN Num(Revenue) ELSE Num(NetIncome)

FinIndexes == {{}, {"Total Revenue"}, {"Net Income"}, {"Total Revenue", "Net Income"}}

\* the rows a table over the periods S has: every filling of the cells the
\* function reads, the older columns holding plain figures
RowCells(label, index, S) ==
    IF label \in index
    THEN { [d \in DatesOf(S) |-> IF d \in DatesOf(Recent(S)) THEN g[d] ELSE PlainCell(label)] :
           g \in [DatesOf(Recent(S)) -> CellsOf(label)] }
    ELSE {[d \in DatesOf(S) |-> NotNumber]}

FinTable(I, cols, rev, pat) ==
    [ index   |-> I,
      columns |-> cols,
      loc     |-> [x \in I \X Labels(cols) |->
                      IF x[1] = "Total Revenue" THEN rev[x[2]] ELSE pat[x[2]]] ]

BothRows == {"Total Revenue", "Net Income"}

\* a table with both rows and plain figures in every column
PlainTable(cols) ==
    FinTable(BothRows, cols,
             [d \in Labels(cols) |-> Num(Revenue)],
             [d \in Labels(cols) |-> Num(NetIncome)])

EquityCells == {Num(0), Num(Equity), NaN, NotNumber}

NoBalanceSheet == [raises |-> FALSE, index |-> {}, columns |-> {}, loc |-> <<>>]

\* stock.balance_sheet raises (or is None, whose .empty raises)
BalanceSheetRaises == [raises |-> TRUE, index |-> {}, columns |-> {}, loc |-> <<>>]

EquitySheet(C, f) ==
    [raises |-> FALSE, index |-> {"Stockholders Equity"}, columns |-> DatesOf(C), loc |-> f]

\* the balance sheets for the periods S: one without rows, one that cannot
\* be fetched, one without the equity row, and those with it over the
\* columns the function reads
BalanceSheetsOver(S) ==
    { NoBalanceSheet,
      BalanceSheetRaises,
      [raises |-> FALSE, index |-> {"Total Assets"}, columns |-> DatesOf(S),
       loc |-> [x \in {"Total Assets"} \X DatesOf(S) |-> Num(Equity)]] }
    \cup
    UNION { { EquitySheet(C, f) :
                f \in [{"Stockholders Equity"} \X DatesOf(C) -> EquityCells] } :
            C \in SUBSET Recent(S) }

\* an answer of the financial provider.  py: the cells are Python numbers
\* and not numpy.float64; tabulate: the package to_markdown needs is there
Answer(fin, bs, py, tabulate) ==
    [financials |-> "DataFrame", fin |-> fin, bs |-> bs, py |-> py, tabulate |-> tabulate]

NoTable == FinTable({}, <<>>, <<>>, <<>>)

FinRaises ==
    [financials |-> "raises", fin |-> NoTable, bs |-> NoBalanceSheet,
     py |-> FALSE, tabulate |-> TRUE]

FinNone ==
    [financials |-> "None", fin |-> NoTable, bs |-> NoBalanceSheet,
     py |-> FALSE, tabulate |-> TRUE]

\* typed tickers: lower case, with spaces around and the suffix, with a
\* leading tab, between a line tabulation and a unit separator, and with a
\* character whose upper case is two characters
Tickers ==
    { <<"t", "c", "s">>,
      <<" ", "T", "C", "S", ".", "N", "S">>,
      <<"\t", "r", "e", "l", "i", "a", "n", "c", "e">>,
      <<VT, "t", "c", "s", US>>,
      <<"ß">> }

----------------------------------------------------------------------------
(* One run of the script *)

NoCalls == [list |-> 0, fin |-> 0, search |-> 0, gen |-> 0]

Bump(c, provider) == [c EXCEPT ![provider] = @ + 1]

TypedKeys(name) == {<<>>, <<name>>}

TickerTexts == {<<>>} \cup Tickers

\* ticker_input = st.text_input(...).upper()
ticker_input == Upper(ticker_text)

\* a run has rendered lines 14-15 and nothing else
RunStart ==
    /\ GOOGLE_API_KEY = None
    /\ TAVILY_API_KEY = None
    /\ status_msg = <<>>
    /\ model_name = None
    /\ fin_markdown = None
    /\ error_msg = None
    /\ news_text = <<>>
    /\ fin_answer = None
    /\ news_answer = None
    /\ gen_outcome = None
    /\ ui = PageTop
    /\ calls = NoCalls

Init ==
    /\ secrets \in SUBSET SecretNames
    /\ g_input \in TypedKeys("g-typed")
    /\ t_input \in TypedKeys("t-typed")
    /\ ticker_text \in TickerTexts
    /\ generate_btn \in BOOLEAN
    /\ pc = "start"
    /\ RunStart
    /\ arg = None
    /\ ret = None

\* lines 43-54: load the keys, show the status, stop or configure the clients
Authenticate ==
    /\ pc = "start"
    /\ LET r == load_api_keys(secrets, g_input, t_input)
       IN  /\ GOOGLE_API_KEY' = r[1]
           /\ TAVILY_API_KEY' = r[2]
           /\ status_msg' = r[3]
           /\ IF IsAuthenticated(r[3])
              THEN /\ ui' = ui \o SidebarShown(secrets) \o <<Show("success", r[3])>>
                   /\ pc' = "main"
              ELSE /\ ui' = ui \o SidebarShown(secrets) \o <<Show("warning", r[3])>>
                   /\ pc' = "stopped"
    /\ UNCHANGED <<inputVars, model_name, fin_markdown, error_msg, news_text,
                   fin_answer, news_answer, gen_outcome, calls, arg, ret>>

MsgEnterTicker == <<"Please enter a ticker symbol.">>

\* lines 155-161: the ticker field and the button
ReadButton ==
    /\ pc = "main"
    /\ IF ~generate_btn
       THEN pc' = "done" /\ ui' = ui \o MainForm
       ELSE IF ticker_input = <<>>
            THEN pc' = "done" /\ ui' = ui \o MainForm \o <<Show("error", MsgEnterTicker)>>
            ELSE pc' = "resolve" /\ ui' = ui \o MainForm
    /\ UNCHANGED <<inputVars, GOOGLE_API_KEY, TAVILY_API_KEY, status_msg, model_name,
                   fin_markdown, error_msg, news_text, fin_answer, news_answer,
                   gen_outcome, calls, arg, ret>>

MsgConnecting == <<"MAG", " Connecting to AI Brain...">>

MsgNoModel == <<"CROSS", " API Error: No working Gemini models found for your key.">>

Gen(name) == [name |-> name, supported_generation_methods |-> {"generateContent"}]
Emb(name) == [name |-> name, supported_generation_methods |-> {"embedContent"}]

\* the enumeration answers a run is tried with
RunModelResponses ==
    { [raises |-> TRUE, models |-> <<>>],
      [raises |-> FALSE, models |-> <<>>],
      [raises |-> FALSE, models |-> <<Emb("models/embedding-001")>>],
      [raises |-> FALSE, models |-> <<Gen("models/gemini-2.0-flash"), Gen("models/gemini-pro")>>] }

\* NoModel as `model_name == ""`: None passes for a model
NoModel_EmptyOnly(m) == m = Some("")

\* `not model_name`: true of None and of ""
NoModel(m) == m = None \/ Val(m) = ""

\* lines 162-168: pick the model under the spinner, or show the error and end
ResolveModel ==
    /\ pc = "resolve"
    /\ \E resp \in RunModelResponses :
         /\ calls' = Bump(calls, "list")
         /\ model_name' = get_working_model(resp)
         /\ IF NoModel(model_name')
            THEN /\ pc' = "done"
                 /\ ui' = ui \o <<Show("spinner", MsgConnecting), Show("error", MsgNoModel)>>
            ELSE /\ pc' = "financials"
                 /\ ui' = Append(ui, Show("spinner", MsgConnecting))
    /\ UNCHANGED <<inputVars, GOOGLE_API_KEY, TAVILY_API_KEY, status_msg,
                   fin_markdown, error_msg, news_text, fin_answer, news_answer,
                   gen_outcome, arg, ret>>

\* the financial answers a run is tried with: an exception, None, an empty
\* table, a table without the net-income row, a full two-year table with
\* equity for the later year only, a two-year table whose older net income
\* is not a number, and a one-year table whose balance sheet cannot be
\* fetched
RunFinResponses ==
    { FinRaises,
      FinNone,
      Answer(NoTable, NoBalanceSheet, FALSE, TRUE),
      Answer(FinTable({"Total Revenue"}, RecentFirst({4}),
                      [d \in DatesOf({4}) |-> Num(Revenue)],
                      [d \in DatesOf({4}) |-> NotNumber]),
             NoBalanceSheet, FALSE, TRUE),
      Answer(PlainTable(RecentFirst({2, 4})),
             EquitySheet({4}, [x \in {"Stockholders Equity"} \X DatesOf({4}) |-> Num(Equity)]),
             FALSE, TRUE),
      Answer(FinTable(BothRows, RecentFirst({2, 4}),
                      [d \in DatesOf({2, 4}) |-> Num(Revenue)],
                      [d \in DatesOf({2, 4}) |->
                          IF d = DateOf(2) THEN NotNumber ELSE Num(NetIncome)]),
             NoBalanceSheet, FALSE, TRUE),
      Answer(PlainTable(RecentFirst({4})), BalanceSheetRaises, FALSE, TRUE) }

MsgGathering(ticker) == <<"BARS", " Gathering Financials & News for ">> \o ticker \o <<"...">>

\* lines 170-171: under the spinner,
\* fin_markdown, error_msg = get_financials(ticker_input)
FetchFinancials ==
    /\ pc = "financials"
    /\ \E resp \in RunFinResponses :
         \E r \in get_financials(ticker_input, resp) :
           /\ fin_markdown' = r[1]
           /\ error_msg' = r[2]
           /\ fin_answer' = Some(resp)
    /\ ui' = Append(ui, Show("spinner", MsgGathering(ticker_input)))
    /\ calls' = Bump(calls, "fin")
    /\ pc' = "news"
    /\ UNCHANGED <<inputVars, GOOGLE_API_KEY, TAVILY_API_KEY, status_msg, model_name,
                   news_text, news_answer, gen_outcome, arg, ret>>

NewsItem(n) == [title |-> <<"headline ", n>>, content |-> <<"body ", n>>]

\* the search answers a run is tried with
RunNewsResponses ==
    { [raises |-> TRUE, err |-> <<"401 Unauthorized">>, results |-> <<>>],
      [raises |-> FALSE, err |-> <<>>, results |-> <<>>],
      [raises |-> FALSE, err |-> <<>>, results |-> <<NewsItem("1"), NewsItem("2")>>] }

\* line 172: news_text = get_news(ticker_input), whatever get_financials returned
FetchNews ==
    /\ pc = "news"
    /\ \E resp \in RunNewsResponses :
         /\ news_text' = get_news(ticker_input, resp)
         /\ news_answer' = Some(resp)
    /\ calls' = Bump(calls, "search")
    /\ pc' = "check"
    /\ UNCHANGED <<inputVars, GOOGLE_API_KEY, TAVILY_API_KEY, status_msg, model_name,
                   fin_markdown, error_msg, fin_answer, gen_outcome, ui, arg, ret>>

\* lines 178-182: the expander with the source data
SourceData(fin, news) ==
    << Show("expander", <<"View Source Data">>),
       Show("subheader", <<"Financials">>),
       Show("text", fin),
       Show("subheader", <<"News Context">>),
       Show("text", news) >>

\* CheckData that shows the error and goes on all the same
CheckData_NoElse ==
    /\ pc = "check"
    /\ ui' = IF Truthy(error_msg) THEN Append(ui, Show("error", Val(error_msg)))
             ELSE ui \o SourceData(fin_markdown, news_text)
    /\ pc' = "generate"
    /\ UNCHANGED <<inputVars, GOOGLE_API_KEY, TAVILY_API_KEY, status_msg, model_name,
                   fin_markdown, error_msg, news_text, fin_answer, news_answer,
                   gen_outcome, calls, arg, ret>>

\* CheckData that also ends the run on a failed news fetch
CheckData_NewsFatal ==
    /\ pc = "check"
    /\ IF Truthy(error_msg)
       THEN /\ ui' = Append(ui, Show("error", Val(error_msg)))
            /\ pc' = "done"
       ELSE IF IsPrefixAt(news_text, <<"News Error: ">>, 1)
            THEN /\ ui' = Append(ui, Show("error", news_text))
                 /\ pc' = "done"
            ELSE /\ ui' = ui \o SourceData(fin_markdown, news_text)
                 /\ pc' = "generate"
    /\ UNCHANGED <<inputVars, GOOGLE_API_KEY, TAVILY_API_KEY, status_msg, model_name,
                   fin_markdown, error_msg, news_text, fin_answer, news_answer,
                   gen_outcome, calls, arg, ret>>

\* lines 174-182: show the error and end, or show the source data and go on
CheckData ==
    /\ pc = "check"
    /\ IF Truthy(error_msg)
       THEN /\ ui' = Append(ui, Show("error", Val(error_msg)))
            /\ pc' = "done"
       ELSE /\ ui' = ui \o SourceData(fin_markdown, news_text)
            /\ pc' = "generate"
    /\ UNCHANGED <<inputVars, GOOGLE_API_KEY, TAVILY_API_KEY, status_msg, model_name,
                   fin_markdown, error_msg, news_text, fin_answer, news_answer,
                   gen_outcome, calls, arg, ret>>

\* lines 186-204: the prompt embeds the ticker, the table and the news
Prompt(ticker, fin, news) == [ticker |-> ticker, fin |-> fin, news |-> news]

\* what lines 207-212 can do: answer; raise from generate_content a quota
\* error (429), a not-found error (404) or another error; or answer with a
\* response whose .text raises (no valid part, as for a blocked prompt)
GenOutcomes ==
    { [ok |-> TRUE,  kind |-> "OK", at |-> "none", text |-> <<"## report">>],
      [ok |-> FALSE, kind |-> "ResourceExhausted", at |-> "generate_content",
       text |-> <<"429 Resource has been exhausted">>],
      [ok |-> FALSE, kind |-> "NotFound", at |-> "generate_content",
       text |-> <<"404 model is not found">>],
      [ok |-> FALSE, kind |-> "Other", at |-> "generate_content",
       text |-> <<"500 internal error">>],
      [ok |-> FALSE, kind |-> "NoText", at |-> "text",
       text |-> <<"response.text requires the response to contain a valid Part">>] }

MsgWriting == <<"PEN", " Analyst is writing the report...">>

\* lines 210-211, rendered once generate_content has returned
ReportHead(ticker) ==
    << Show("markdown", <<"---">>),
       Show("subheader", <<"MEMO", " Research Report: ">> \o ticker) >>

\* st.error(f"AI Generation Failed: {str(e)}")
MsgGenFailed(e) == <<"AI Generation Failed: ">> \o e

\* what the try block renders for an outcome
Rendered(o, ticker) ==
    IF o.ok THEN ReportHead(ticker) \o <<Show("markdown", o.text)>>
    ELSE IF o.at = "text"
         THEN ReportHead(ticker) \o <<Show("error", MsgGenFailed(o.text))>>
         ELSE <<Show("error", MsgGenFailed(o.text))>>

\* Generate that submits the prompt again after any exception, three calls at most
Generate_RetryAny ==
    /\ pc = "generate"
    /\ \E o \in GenOutcomes :
         /\ gen_outcome' =
              Some([model |-> Val(model_name),
                    prompt |-> Prompt(ticker_input, fin_markdown, news_text),
                    outcome |-> o])
         /\ IF o.ok \/ calls.gen >= 2
            THEN /\ ui' = ui \o <<Show("spinner", MsgWriting)>> \o Rendered(o, ticker_input)
                 /\ pc' = "done"
            ELSE ui' = ui /\ pc' = "generate"
    /\ calls' = Bump(calls, "gen")
    /\ UNCHANGED <<inputVars, GOOGLE_API_KEY, TAVILY_API_KEY, status_msg, model_name,
                   fin_markdown, error_msg, news_text, fin_answer, news_answer, arg, ret>>

\* lines 185-215: under the spinner, one generate_content call; any
\* exception is shown and ends the run
Generate ==
    /\ pc = "generate"
    /\ \E o \in GenOutcomes :
         /\ gen_outcome' =
              Some([model |-> Val(model_name),
                    prompt |-> Prompt(ticker_input, fin_markdown, news_text),
                    outcome |-> o])
         /\ ui' = ui \o <<Show("spinner", MsgWriting)>> \o Rendered(o, ticker_input)
    /\ calls' = Bump(calls, "gen")
    /\ pc' = "done"
    /\ UNCHANGED <<inputVars, GOOGLE_API_KEY, TAVILY_API_KEY, status_msg, model_name,
                   fin_markdown, error_msg, news_text, fin_answer, news_answer, arg, ret>>

\* a widget changes or the button is clicked: Streamlit runs the script again
\* from the top with the new widget values
Rerun ==
    /\ pc \in {"done", "stopped"}
    /\ g_input' \in TypedKeys("g-typed")
    /\ t_input' \in TypedKeys("t-typed")
    /\ ticker_text' \in TickerTexts
    /\ generate_btn' \in BOOLEAN
    /\ pc' = "start"
    /\ GOOGLE_API_KEY' = None
    /\ TAVILY_API_KEY' = None
    /\ status_msg' = <<>>
    /\ model_name' = None
    /\ fin_markdown' = None
    /\ error_msg' = None
    /\ news_text' = <<>>
    /\ fin_answer' = None
    /\ news_answer' = None
    /\ gen_outcome' = None
    /\ ui' = PageTop
    /\ calls' = NoCalls
    /\ UNCHANGED <<secrets, arg, ret>>

Next ==
    \/ Authenticate
    \/ ReadButton
    \/ ResolveModel
    \/ FetchFinancials
    \/ FetchNews
    \/ CheckData
    \/ Generate
    \/ Rerun

Spec == Init /\ [][Next]_vars

----------------------------------------------------------------------------
(* get_working_model applied to every enumeration answer *)

InitModel ==
    /\ secrets = SecretNames
    /\ g_input = <<>>
    /\ t_input = <<>>
    /\ ticker_text = <<>>
    /\ generate_btn = FALSE
    /\ RunStart
    /\ pc = "get_working_model"
    /\ arg \in ModelResponses
    /\ ret = None

ApplyGetWorkingModel ==
    /\ pc = "get_working_model"
    /\ ret' = get_working_model(arg)
    /\ pc' = "returned"
    /\ UNCHANGED <<inputVars, runVars, arg>>

SpecModel == InitModel /\ [][ApplyGetWorkingModel]_vars

----------------------------------------------------------------------------
(* get_financials applied to the provider answers of at most MaxCols columns *)

\* the columns with the label at position p, if there is one, turned into a str
Relabel(cols, p) == [i \in 1..Len(cols) |-> IF i = p THEN StrLabel(cols[i]) ELSE cols[i]]

InitFin ==
    /\ secrets = SecretNames
    /\ g_input = <<>>
    /\ t_input = <<>>
    /\ ticker_text = <<>>
    /\ generate_btn = FALSE
    /\ RunStart
    /\ pc = "get_financials"
    /\ \/ arg = [ticker |-> <<"T", "C", "S">>, resp |-> FinRaises]
       \/ arg = [ticker |-> <<"T", "C", "S">>, resp |-> FinNone]
       \/ \E S \in SUBSET DateIds, I \in FinIndexes, py \in BOOLEAN :
            \E rev \in RowCells("Total Revenue", I, S),
               pat \in RowCells("Net Income", I, S),
               b \in BalanceSheetsOver(S) :
              arg = [ticker |-> <<"T", "C", "S">>,
                     resp |-> Answer(FinTable(I, RecentFirst(S), rev, pat), b, py, TRUE)]
       \/ \E S \in SUBSET DateIds, tabulate \in BOOLEAN :
            \E p \in 0..Cardinality(S) :
              /\ ~(p = 0 /\ tabulate)
              /\ arg = [ticker |-> <<"T", "C", "S">>,
                        resp |-> Answer(PlainTable(Relabel(RecentFirst(S), p)),
                                        NoBalanceSheet, FALSE, tabulate)]
    /\ ret = None

ApplyGetFinancials ==
    /\ pc = "get_financials"
    /\ ret' \in get_financials(arg.ticker, arg.resp)
    /\ pc' = "returned"
    /\ UNCHANGED <<inputVars, runVars, arg>>

SpecFin == InitFin /\ [][ApplyGetFinancials]_vars

----------------------------------------------------------------------------
(* Properties *)

LastShown == ui[Len(ui)]

ErrorsShown == {i \in 1..Len(ui) : ui[i].kind = "error"}

KeysMissing == ~(SecretNames \subseteq secrets) /\ (g_input = <<>> \/ t_input = <<>>)

\* C1: in a run where the secret store lacks a key and a typed key is empty,
\* load_api_keys returns (None, None, waiting), the page is the title, the
\* introduction, the sidebar form and the warning, the run stops and no
\* provider has been called
C1_MissingKeysStopWithoutCalls ==
    (pc # "start" /\ KeysMissing) =>
        /\ GOOGLE_API_KEY = None
        /\ TAVILY_API_KEY = None
        /\ status_msg = MsgWaiting
        /\ ui = PageTop \o SidebarForm \o <<Show("warning", MsgWaiting)>>
        /\ pc = "stopped"
        /\ calls = NoCalls

\* one secret present, one key typed, the other left empty, button clicked
C1_Witness ==
    /\ pc = "stopped"
    /\ secrets = {"GOOGLE_API_KEY"}
    /\ g_input # <<>>
    /\ t_input = <<>>
    /\ generate_btn
    /\ ticker_text # <<>>

FinAnswered == fin_answer # None

EmptyTableAnswered ==
    /\ FinAnswered
    /\ Val(fin_answer).financials = "DataFrame"
    /\ FinEmpty(Val(fin_answer).fin)

\* C2: once the provider has answered with an empty income statement the
\* snapshot is None, the run never reaches the generation step and no
\* generation call is made
C2_EmptyTableNoGeneration ==
    EmptyTableAnswered =>
        /\ fin_markdown = None
        /\ pc \in {"news", "check", "done"}
        /\ gen_outcome = None
        /\ calls.gen = 0

C2_Witness == EmptyTableAnswered /\ pc = "done" /\ calls.list = 1

\* C3 as stated: a run with an empty table ends with the "no data found"
\* error, no search call and no generation call
C3_FailFastNoNewsCall ==
    (EmptyTableAnswered /\ pc = "done") =>
        /\ LastShown = Show("error", MsgNoData(CleanTicker(ticker_input)))
        /\ calls.search = 0
        /\ calls.gen = 0

\* C3 amended: a run with an empty table ends with the "no data found"
\* error after exactly one search call (the news is fetched before the error
\* is looked at) and no generation call
C3_NoDataErrorAfterNewsCall ==
    (EmptyTableAnswered /\ pc = "done") =>
        /\ LastShown = Show("error", MsgNoData(CleanTicker(ticker_input)))
        /\ Cardinality(ErrorsShown) = 1
        /\ calls.search = 1
        /\ calls.gen = 0

C3_Witness ==
    /\ EmptyTableAnswered
    /\ pc = "done"
    /\ news_answer # None
    /\ Val(news_answer).results # <<>>

Generated == gen_outcome # None

RateLimited == Generated /\ Val(gen_outcome).outcome.kind = "ResourceExhausted"

MsgQuotaExceeded == <<"Exceeded daily quota, try later">>

\* C4: a generation answered with a rate-limit signal is submitted again,
\* and the run ends with a report or with a quota-exceeded message
C4_RateLimitRetried ==
    (RateLimited /\ pc = "done") =>
        /\ calls.gen > 1
        /\ \/ LastShown.kind = "markdown"
           \/ LastShown = Show("error", MsgQuotaExceeded)

CapableAt(models) == {i \in 1..Len(models) : SupportsGeneration(models[i])}

CapableNames(models) == {models[i].name : i \in CapableAt(models)}

PreferredAmong(names) == {i \in 1..Len(preferences) : preferences[i] \in names}

\* C5: get_working_model returns None when the enumeration fails or has no
\* generation-capable model, else the highest-ranked preferred name among the
\* capable models, else the first capable model in enumeration order
C5_ModelDecisionTable ==
    pc = "returned" =>
        IF arg.raises \/ CapableAt(arg.models) = {}
        THEN ret = None
        ELSE IF PreferredAmong(CapableNames(arg.models)) # {}
             THEN \E i \in PreferredAmong(CapableNames(arg.models)) :
                     /\ \A j \in PreferredAmong(CapableNames(arg.models)) : i <= j
                     /\ ret = Some(preferences[i])
             ELSE \E i \in CapableAt(arg.models) :
                     /\ \A j \in CapableAt(arg.models) : i <= j
                     /\ ret = Some(arg.models[i].name)

\* a capable model outside the list, then a low-ranked preferred one, then a
\* higher-ranked preferred one: the last is returned
C5_Witness ==
    /\ pc = "returned"
    /\ ~arg.raises
    /\ Len(arg.models) = 3
    /\ CapableAt(arg.models) = {1, 2, 3}
    /\ arg.models[1].name = "models/gemini-2.0-flash"
    /\ arg.models[2].name = "models/gemini-pro"
    /\ arg.models[3].name = "models/gemini-1.5-flash-latest"
    /\ ret = Some("models/gemini-1.5-flash-latest")

\* C6: a run whose enumeration call yields no model ends with the error
\* shown and without a call for financials, news or generation
C6_NoModelIsFatal ==
    (calls.list > 0 /\ model_name = None) =>
        /\ pc = "done"
        /\ LastShown = Show("error", MsgNoModel)
        /\ calls.fin = 0
        /\ calls.search = 0
        /\ calls.gen = 0

C6_Witness == pc = "done" /\ calls.list = 1 /\ model_name = None

\* the column of the returned table that is headed by the year label
ColumnsHeaded(md, yr) == {j \in 1..Len(md.columns) : md.columns[j] = yr}

\* the revenue and the net income of a column are there: both rows exist
\* and both cells hold a number
ItemsPresent(fin, date) ==
    \A label \in BothRows :
        label \in fin.index /\ fin.loc[<<label, date>>].k = "num"

\* the equities the return of a column may be taken against: the column's
\* stockholders' equity when the balance sheet gives a figure (a number or
\* nan) for it, and the default 1
EquityOrDefault(bs, date) ==
    {Num(1)} \cup (IF ~bs.raises /\ EquityFor(bs, date).k # "object"
                   THEN {EquityFor(bs, date)} ELSE {})

\* C7: every one of the first three columns whose revenue and net income
\* are present is in the snapshot under its year with its own figures, the
\* return on equity being taken against its equity or against 1
C7_EveryReadableColumnKept ==
    (pc = "returned" /\ arg.resp.financials = "DataFrame") =>
        \A i \in 1..Len(Years(arg.resp.fin)) :
            LET date == Years(arg.resp.fin)[i]
                fin  == arg.resp.fin
            IN  (date.ts /\ ItemsPresent(fin, date)) =>
                  /\ ret[1] # None
                  /\ \E j \in ColumnsHeaded(Val(ret[1]), YearLabel(date)) :
                       /\ Val(ret[1]).rows[1][j] = RoundCrore(fin.loc[<<"Total Revenue", date>>])
                       /\ Val(ret[1]).rows[2][j] = RoundCrore(fin.loc[<<"Net Income", date>>])
                       /\ \E equity \in EquityOrDefault(arg.resp.bs, date) :
                            Val(ret[1]).rows[3][j]
                                \in RoundROE(fin.loc[<<"Net Income", date>>], equity)

NewsFailed == news_answer # None /\ Val(news_answer).raises

\* C8: a failed search leaves a placeholder text, never an error on screen,
\* and a run with a model and a snapshot makes its generation call whatever
\* the search answered
C8_NewsNeverBlocksGeneration ==
    /\ NewsFailed => news_text = <<"News Error: ">> \o Val(news_answer).err
    /\ \A i \in ErrorsShown : ~Contains(ui[i].text, <<"News Error: ">>)
    /\ (pc = "done" /\ news_answer # None /\ model_name # None /\ fin_markdown # None) =>
          /\ calls.gen = 1
          /\ Val(gen_outcome).prompt.news = news_text

C8_Witness == pc = "done" /\ NewsFailed /\ calls.gen = 1

\* C9: a run whose financial fetch produced no snapshot ends with an error
\* that contains the normalized ticker
C9_EmptyResultNamesTicker ==
    (pc = "done" /\ FinAnswered /\ fin_markdown = None) =>
        /\ LastShown.kind = "error"
        /\ Contains(LastShown.text, CleanTicker(ticker_input))

OtherFailure ==
    /\ Generated
    /\ ~Val(gen_outcome).outcome.ok
    /\ Val(gen_outcome).outcome.kind # "ResourceExhausted"

\* C10: a generation that fails with an error other than a quota signal is
\* the only generation call of the run, which is over with the error echoed
\* in the failure message
C10_OtherErrorsNotRetried ==
    OtherFailure =>
        /\ calls.gen = 1
        /\ pc = "done"
        /\ LastShown = Show("error", <<"AI Generation Failed: ">> \o Val(gen_outcome).outcome.text)

C10_Witness == OtherFailure /\ Val(gen_outcome).outcome.kind = "NotFound"

====
